---- MODULE Spec2Model ----
(***************************************************************************)
(* The DHT11 single-wire driver of hypirae/dht11 (src/sensor.c) and the    *)
(* scene handlers that call it (src/application.fam, src/debug_scene.c,    *)
(* src/main_menu.c, src/dht11.c), as a state machine.                      *)
(*                                                                         *)
(* A machine state is a record [app, call, hw]:                            *)
(*   app   the DHT11App fields the driver touches (src/app.h),             *)
(*   call  the activation record of the running read: its locals, its      *)
(*         position (pc) and history fields that only observe,             *)
(*   hw    the data pin, the critical section and the LED.                 *)
(* Every statement group of the two read functions is an operator on such  *)
(* a record; the actions apply them to the variables.                      *)
(***************************************************************************)
EXTENDS Integers, Sequences, FiniteSets, TLC

VARIABLES
    app,      \* DHT11App: temperature, humidity, sensor_ok, debug_log
    call,     \* the running read (mode "none" when no read is running)
    hw,       \* pin mode, critical section, LED
    scene,    \* the scene the scene manager shows
    widget,   \* what the read-sensor widget shows
    sensor,   \* the line's side: timing profile and the byte being sent
    twin,     \* the other read function fed the same line behaviour
    pending,  \* the presses of OK the view dispatcher has not handled yet
    env       \* which input sets the behaviour draws from

vars == <<app, call, hw, scene, widget, sensor, twin, pending, env>>

---------------------------------------------------------------------------
(* Program constants *)

TimeoutPolls == 200       \* timeout < 200 / timeout >= 200
HighTimeoutUs == 200      \* if(elapsed_us > 200) break
CyclesPerUs == 64         \* elapsed_cycles / 64
BitThresholdUs == 40      \* pulse_duration_us > 40
NumBits == 40             \* for(int i = 0; i < 40; i++)
LogAllBits == 16          \* if(i < 16)
DebugLogSize == 2048      \* char debug_log[2048]
MaxHumidity == 100        \* app->humidity > 100.0f
MaxTemperature == 60      \* app->temperature > 60.0f
MinTemperature == -40     \* app->temperature < -40.0f

(* Bounds of the line behaviours *)

MaxPending == 2           \* presses that may be queued while a handler runs
LatestSeen == 202         \* sample index standing for "level not seen in time"
StuckSamples == 300       \* samples a line stuck high shows the bit-high loop

---------------------------------------------------------------------------
(* uint32_t and uint8_t arithmetic.  A uint32_t that may wrap (the cycle    *)
(* counter) is held as two 16-bit halves [hi, lo], value hi * 65536 + lo.  *)

Pow2(n) == 2 ^ n

Half == 65536

U32(n) == [hi |-> (n \div Half) % Half, lo |-> n % Half]

\* The halves brought back into range, the carry of the low half taken up
Carry32(hi, lo) == [hi |-> (hi + lo \div Half) % Half, lo |-> lo % Half]

\* uint32_t addition, modulo 2^32
Add32(a, b) == Carry32(a.hi + b.hi, a.lo + b.lo)

\* A difference that takes the later counter value to be the larger one and
\* yields 0 when it is not; C21 does not hold of it
Sub32Ordered(a, b) ==
    IF a.hi < b.hi \/ (a.hi = b.hi /\ a.lo < b.lo)
    THEN [hi |-> 0, lo |-> 0]
    ELSE Carry32(a.hi - b.hi + Half - 1, a.lo - b.lo + Half)

\* uint32_t subtraction: the modular difference
Sub32(a, b) == Carry32(a.hi - b.hi + Half - 1, a.lo - b.lo + Half)

\* uint32_t division by 64 (65536 = 1024 * 64)
Div64(a) == a.hi * (Half \div CyclesPerUs) + a.lo \div CyclesPerUs

\* uint8_t addition
Add8(a, b) == (a + b) % 256

BitOf(byte, idx) == (byte \div Pow2(idx)) % 2

\* byte |= (1 << idx)
OrBit(byte, idx) == IF BitOf(byte, idx) = 1 THEN byte ELSE byte + Pow2(idx)

\* byte & 0x7F
And7F(byte) == byte % 128

\* byte & 0x80, as a truth value
Msb(byte) == BitOf(byte, 7) = 1

---------------------------------------------------------------------------
(* The line as the polling loops see it.  A wait is given the line as      *)
(* [first, to]: the samples before sample number `first` show the level    *)
(* ~to, sample `first` and the later ones show `to`.                       *)

\* F applied to the value of x, x being evaluated once
Apply(F(_), x) == CHOOSE r \in {F(v) : v \in {x}} : TRUE

furi_hal_gpio_read(line, s) == IF s >= line.first THEN line.to ELSE ~line.to

\* while(furi_hal_gpio_read(DHT11_PIN) && timeout < 200) { furi_delay_us(1); timeout++; }
\* At most n passes from `timeout`, run by halves; the sample is taken
\* before timeout is tested.
RECURSIVE WhileHigh(_, _, _)
WhileHigh(line, timeout, n) ==
    IF n = 1
    THEN IF furi_hal_gpio_read(line, timeout + 1) /\ timeout < TimeoutPolls
         THEN timeout + 1
         ELSE timeout
    ELSE Apply(LAMBDA h :
                   Apply(LAMBDA mid : IF mid < timeout + h
                                      THEN mid
                                      ELSE WhileHigh(line, mid, n - h),
                         WhileHigh(line, timeout, h)),
               n \div 2)

\* The loop run to its exit: it cannot make more than 200 passes
WaitWhileHigh(line, timeout) == WhileHigh(line, timeout, TimeoutPolls + 1)

\* while(!furi_hal_gpio_read(DHT11_PIN) && timeout < 200) { furi_delay_us(1); timeout++; }
RECURSIVE WhileLow(_, _, _)
WhileLow(line, timeout, n) ==
    IF n = 1
    THEN IF ~furi_hal_gpio_read(line, timeout + 1) /\ timeout < TimeoutPolls
         THEN timeout + 1
         ELSE timeout
    ELSE Apply(LAMBDA h :
                   Apply(LAMBDA mid : IF mid < timeout + h
                                      THEN mid
                                      ELSE WhileLow(line, mid, n - h),
                         WhileLow(line, timeout, h)),
               n \div 2)

WaitWhileLow(line, timeout) == WhileLow(line, timeout, TimeoutPolls + 1)

\* One pass of the bit-high loop, `per` cycles after the previous counter read:
\*   uint32_t elapsed_cycles = DWT->CYCCNT - start_cycles;
\*   uint32_t elapsed_us = elapsed_cycles / 64;
\*   if(elapsed_us > 200) break;
ElapsedUs(start_cycles, cyccnt) == Div64(Sub32(cyccnt, start_cycles))

Passed(start_cycles, cyccnt) ==
    [cyc |-> cyccnt, broke |-> ElapsedUs(start_cycles, cyccnt) > HighTimeoutUs]

HighPass(start_cycles, now, per) == Passed(start_cycles, Add32(now, U32(per)))

\* while(furi_hal_gpio_read(DHT11_PIN)) { ... }: the line shows high for n
\* more samples.  Yields the counter at the loop's exit, whether it left by
\* the break, and the passes not made; run by halves.
RECURSIVE HighLoop(_, _, _, _)
HighLoop(start_cycles, now, n, per) ==
    IF n = 0
    THEN [cyc |-> now, broke |-> FALSE]
    ELSE IF n = 1
    THEN HighPass(start_cycles, now, per)
    ELSE Apply(LAMBDA h :
                   Apply(LAMBDA mid : IF mid.broke
                                      THEN mid
                                      ELSE HighLoop(start_cycles, mid.cyc, n - h, per),
                         HighLoop(start_cycles, now, h, per)),
               n \div 2)

\* uint32_t pulse_duration_us = (end_cycles - start_cycles) / 64;
PulseDurationUs(start_cycles, end_cycles) == Div64(Sub32(end_cycles, start_cycles))

\* One measurement: uint32_t start_cycles = DWT->CYCCNT; the loop;
\* uint32_t end_cycles = DWT->CYCCNT (`tail` cycles after the loop's last read)
Measured(start_cycles, end_cycles, broke) ==
    [start_cycles |-> start_cycles,
     end_cycles |-> end_cycles,
     pulse_duration_us |-> PulseDurationUs(start_cycles, end_cycles),
     broke |-> broke]

LoopLeft(start_cycles, r, tail) ==
    Measured(start_cycles, Add32(r.cyc, U32(tail)), r.broke)

MeasureHigh(m) == LoopLeft(m.start, HighLoop(m.start, m.start, m.n, m.per), m.tail)

---------------------------------------------------------------------------
(* Machine states *)

\* dht11_app: the sensor data after construction
InitApp ==
    [temperature |-> 0, humidity |-> 0, sensor_ok |-> FALSE, debug_log |-> <<>>]

\* dht11_app: the pin after construction, no critical section, LED off
InitHw ==
    [pin |-> "input_pullup", critical |-> 0, led |-> "off",
     ops |-> <<>>, cs_enter |-> 0, cs_exit |-> 0, unprotected |-> FALSE,
     entered_after |-> <<>>, readers |-> 0, notified_in_cs |-> FALSE]

NoCall ==
    [mode |-> "none", pc |-> "idle", data |-> <<0, 0, 0, 0, 0>>, timeout |-> 0,
     i |-> 0, bits_read |-> 0, start_cycles |-> U32(0), end_cycles |-> U32(0),
     pulse_duration_us |-> 0, checksum |-> 0, ret |-> FALSE,
     entry |-> [temperature |-> 0, humidity |-> 0, log |-> 0],
     log_pos |-> 0,
     expired |-> FALSE, late_bits |-> 0, fail |-> "none", samples |-> 0,
     visited |-> {}, bits |-> <<>>]

\* A frame array that is not cleared at the entry and still holds the bytes
\* of the reading stored; C29 does not hold of it
NewCallStaleFrame(mode, a) ==
    [NoCall EXCEPT !.mode = mode, !.pc = "start",
                   !.data = <<a.humidity % 256, 0, (a.temperature + 256) % 256, 0, 0>>,
                   !.entry = [temperature |-> a.temperature, humidity |-> a.humidity,
                              log |-> Len(a.debug_log)]]

\* The locals of a read at its entry: uint8_t data[5] = {0}; uint32_t timeout = 0;
\* entry, expired, late_bits, fail, samples, visited and bits only observe.
NewCall(mode, a) ==
    [NoCall EXCEPT !.mode = mode, !.pc = "start",
                   !.entry = [temperature |-> a.temperature, humidity |-> a.humidity,
                              log |-> Len(a.debug_log)]]

Goto(S, p) == [S EXCEPT !.call.pc = p, !.call.visited = @ \cup {p}]

\* furi_hal_gpio_init(DHT11_PIN, GpioModeOutputPushPull, ...); furi_hal_gpio_write(DHT11_PIN, false);
DriveLow(S) ==
    [S EXCEPT !.hw.pin = "output_low", !.hw.ops = @ \o <<"init_output", "write_low">>]

\* A line driven high again after it was driven high; C16 does not hold of it
DriveHighTwice(S) ==
    [S EXCEPT !.hw.pin = IF S.hw.pin = "input_pullup" THEN "input_pullup" ELSE "output_high",
              !.hw.ops = @ \o <<"write_high", "write_high">>]

\* furi_hal_gpio_write(DHT11_PIN, true);
DriveHigh(S) ==
    [S EXCEPT !.hw.pin = IF S.hw.pin = "input_pullup" THEN "input_pullup" ELSE "output_high",
              !.hw.ops = Append(@, "write_high")]

\* A release that leaves the pin a driven output; C28 does not hold of it
ReleaseToInputSkipped(S) == [S EXCEPT !.hw.ops = Append(@, "init_input")]

\* furi_hal_gpio_init(DHT11_PIN, GpioModeInput, GpioPullUp, GpioSpeedLow);
ReleaseToInput(S) ==
    [S EXCEPT !.hw.pin = "input_pullup", !.hw.ops = Append(@, "init_input")]

\* furi_delay_ms / furi_delay_us
Delay(S, what) == [S EXCEPT !.hw.ops = Append(@, what)]

\* A read that never enters the critical section; C15 does not hold of it
CriticalEnterSkipped(S) == S

\* FURI_CRITICAL_ENTER(); entered_after notes the line operations done before it
CriticalEnter(S) ==
    [S EXCEPT !.hw.critical = @ + 1, !.hw.cs_enter = @ + 1,
              !.hw.entered_after = S.hw.ops]

\* FURI_CRITICAL_EXIT();
CriticalExit(S) ==
    [S EXCEPT !.hw.critical = @ - 1, !.hw.cs_exit = @ + 1]

\* notification_message(app->notifications, &sequence_blink_start_blue / &sequence_blink_stop);
\* notified_in_cs notes a call made while the critical section is held
Notify(S, led) ==
    [S EXCEPT !.hw.led = led, !.hw.notified_in_cs = @ \/ S.hw.critical > 0]

\* A sample of the line taken by a wait or by the bit-high loop
Sampled(S) ==
    [S EXCEPT !.hw.unprotected = @ \/ S.hw.critical = 0]

\* A failure site that reports success; C7 does not hold of it
ReturnFalseAsTrue(S, kind) ==
    Goto([S EXCEPT !.call.ret = TRUE, !.call.fail = kind], "ret")

\* return false; at one of the failure sites
ReturnFalse(S, kind) ==
    Goto([S EXCEPT !.call.ret = FALSE, !.call.fail = kind], "ret")

\* return true;
ReturnTrue(S) == Goto([S EXCEPT !.call.ret = TRUE], "ret")

\* A bounded wait whose counter reached the bound
Expire(S) == [S EXCEPT !.call.expired = TRUE]

\* The outcome of one polling wait stored in the locals
Waited(S, timeout) ==
    Apply(LAMBDA t : Sampled([S EXCEPT !.call.timeout = t, !.call.samples = t + 1]),
          timeout)

---------------------------------------------------------------------------
(* dht11_sensor_read, src/sensor.c 24-154 *)

\* The threshold taken as "at least 40"; C8 does not hold of it
PlainBitAtLeast(pulse_duration_us) == pulse_duration_us >= BitThresholdUs

\* pulse_duration_us > 40 (line 116)
PlainBit(pulse_duration_us) == pulse_duration_us > BitThresholdUs

\* Least-significant bit first (bit_idx = i % 8); C9 does not hold of it
SetDataBitLsbFirst(data, i) ==
    [data EXCEPT ![(i \div 8) + 1] = OrBit(@, i % 8)]

\* data[byte_idx] |= (1 << bit_idx) with byte_idx = i / 8, bit_idx = 7 - (i % 8)
SetDataBit(data, i) ==
    [data EXCEPT ![(i \div 8) + 1] = OrBit(@, 7 - (i % 8))]

\* A sum that leaves out data[3]; C4 does not hold of it
ChecksumOfThree(data) == Add8(Add8(data[1], data[2]), data[3])

\* uint8_t checksum = data[0] + data[1] + data[2] + data[3];
Checksum(data) == Add8(Add8(Add8(data[1], data[2]), data[3]), data[4])

\* A range check that lets humidity 101 pass; C1 does not hold of it
OutOfRangeFrom102(a) ==
    \/ a.humidity > MaxHumidity + 1
    \/ a.temperature > MaxTemperature
    \/ a.temperature < MinTemperature

\* app->humidity > 100.0f || app->temperature > 60.0f || app->temperature < -40.0f
OutOfRange(a) ==
    \/ a.humidity > MaxHumidity
    \/ a.temperature > MaxTemperature
    \/ a.temperature < MinTemperature

\* A plain read that empties the debug log at its start, as the instrumented
\* read does; C30 does not hold of it
PlainStartClearsLog(S) ==
    Goto(Delay(DriveLow(Notify([S EXCEPT !.app.debug_log = <<>>], "blue")), "delay_20ms"),
         "release")

\* lines 25-35: locals, LED, start signal, 20 ms low
PlainStart(S) ==
    Goto(Delay(DriveLow(Notify(S, "blue")), "delay_20ms"), "release")

\* lines 38-45: critical section, 30 us high, input with pull-up
PlainRelease(S) ==
    Goto(ReleaseToInput(Delay(DriveHigh(CriticalEnter(S)), "delay_30us")), "ack_low")

\* An expired wait that is waited again instead of returning; C13 does not
\* hold of it
PlainTimedOutWaitsOn(S, kind) == S

\* if(timeout >= 200) { FURI_CRITICAL_EXIT(); notification_message(stop); return false; }
PlainTimedOut(S, kind) ==
    ReturnFalse(Notify(CriticalExit(Expire(S)), "off"), kind)

\* A test that lets a counter of 200 pass; C10 does not hold of it
PlainAfterWaitAbove(W, kind, next) ==
    IF W.call.timeout > TimeoutPolls
    THEN PlainTimedOut(W, kind)
    ELSE Goto(W, next)

\* The test after a wait: fail with `kind`, or go on at `next`
PlainAfterWait(W, kind, next) ==
    Apply(LAMBDA w : IF w.call.timeout >= TimeoutPolls
                     THEN PlainTimedOut(w, kind)
                     ELSE Goto(w, next),
          W)

\* lines 49-58: 1. DHT11 pulls low
PlainAckLow(S, line) ==
    PlainAfterWait(Waited(S, WaitWhileHigh(line, 0)), "NoResponse", "ack_high")

\* The second wait reporting the third wait's failure; C11 does not hold of it
PlainAckHighAsTooLong(S, line) ==
    PlainAfterWait(Waited(S, WaitWhileLow(line, 0)), "ResponseTooLong", "ack_end")

\* lines 61-70: 2. DHT11 pulls high
PlainAckHigh(S, line) ==
    PlainAfterWait(Waited(S, WaitWhileLow(line, 0)), "InvalidResponseTiming", "ack_end")

\* lines 73-85: 3. end of the response high period; then the loop from i = 0
PlainAckEnd(S, line) ==
    PlainAfterWait(Waited(S, WaitWhileHigh(line, 0)), "ResponseTooLong", "bit_start")

\* lines 87-96: wait for the bit start
PlainBitStart(S, line) ==
    PlainAfterWait(Waited(S, WaitWhileLow(line, 0)), "BitTimeout", "bit_high")

\* start_cycles, end_cycles and pulse_duration_us of one measurement
StoreMeasure(S, r) ==
    Sampled([S EXCEPT !.call.start_cycles = r.start_cycles,
                      !.call.end_cycles = r.end_cycles,
                      !.call.pulse_duration_us = r.pulse_duration_us])

\* What the history fields note of a classified bit
NoteBit(S, broke, bit) ==
    [S EXCEPT !.call.late_bits = IF S.call.expired THEN @ + 1 ELSE @,
              !.call.expired = @ \/ broke,
              !.call.bits = Append(@, bit)]

\* if(<bit>) { data[byte_idx] |= (1 << bit_idx); }
StoreBit(S, bit) ==
    IF bit THEN [S EXCEPT !.call.data = SetDataBit(@, S.call.i)] ELSE S

\* A loop that leaves after bit 38; C14 does not hold of it
NextBitStopsEarly(S) ==
    Goto([S EXCEPT !.call.i = @ + 1],
         IF S.call.i + 1 < NumBits - 1 THEN "bit_start" ELSE "exit_cs")

\* i++ and the loop test i < 40
NextBit(S) ==
    Goto([S EXCEPT !.call.i = @ + 1],
         IF S.call.i + 1 < NumBits THEN "bit_start" ELSE "exit_cs")

PlainClassify(S, broke, bit) == NextBit(NoteBit(StoreBit(S, bit), broke, bit))

PlainMeasured(S, r) ==
    Apply(LAMBDA m : PlainClassify(StoreMeasure(S, m), m.broke,
                                   PlainBit(m.pulse_duration_us)),
          r)

\* lines 104-122: measure the high period, classify, i++ and the loop test
PlainBitHigh(S, m) == PlainMeasured(S, MeasureHigh(m))

\* line 124
PlainExitCs(S) == Goto(CriticalExit(S), "checksum")

\* if(checksum != data[4]) { notification_message(stop); return false; }
PlainCompare(S) ==
    IF S.call.checksum # S.call.data[5]
    THEN ReturnFalse(Notify(S, "off"), "ChecksumMismatch")
    ELSE Goto(S, "convert")

\* lines 127-132: verify the checksum
PlainChecksum(S) == PlainCompare([S EXCEPT !.call.checksum = Checksum(S.call.data)])

\* app->humidity = (float)data[0]; app->temperature = (float)data[2];
StoreReadings(S) ==
    [S EXCEPT !.app.humidity = S.call.data[1], !.app.temperature = S.call.data[3]]

\* if(data[2] & 0x80) { app->temperature = -(float)(data[2] & 0x7F); }
SignMagnitude(S) ==
    IF Msb(S.call.data[3])
    THEN [S EXCEPT !.app.temperature = -And7F(S.call.data[3])]
    ELSE S

\* lines 136-142: humidity, temperature and the sign flag
PlainConvert(S) == Goto(SignMagnitude(StoreReadings(S)), "range")

\* lines 145-153: validate the ranges, return
PlainRange(S) ==
    IF OutOfRange(S.app)
    THEN ReturnFalse(Notify(S, "off"), "OutOfRange")
    ELSE ReturnTrue(Notify(S, "off"))

---------------------------------------------------------------------------
(* dht11_sensor_debug_read, src/sensor.c 157-353 *)

\* A trace record: the kind of line, its step number (0 when it has none)
\* and the numbers formatted into it.
Rec(tag, n, v) == [tag |-> tag, n |-> n, v |-> v]

\* The number of characters %d and %lu print of n
RECURSIVE Digits(_)
Digits(n) == IF n < 10 THEN 1 ELSE 1 + Digits(n \div 10)

\* The number of characters %.1f prints of a whole number x
OneDecimal(x) == IF x < 0 THEN Digits(-x) + 3 ELSE Digits(x) + 2

\* The length of a numbered step line: its fixed text and its numbers
StepLen(n, v) ==
    CASE n = 1 -> 27
      [] n = 2 -> 23 + (IF v[1] = 1 THEN 4 ELSE 3)
      [] n = 3 -> 34
      [] n = 4 -> 41
      [] n = 5 -> 37
      [] n = 6 -> 31
      [] n = 7 -> 29 + Digits(v[1]) + Digits(v[2])
      [] n = 8 -> 20 + Digits(v[1])
      [] n = 9 -> 21 + Digits(v[1])
      [] n = 10 -> 30
      [] n = 11 -> 41
      [] n = 12 -> 19 + Digits(v[1])
      [] n = 13 -> 19 + 5 * 2
      [] n = 14 -> 32 + 2 * 2
      [] n = 15 -> 16 + OneDecimal(v[1])
      [] n = 16 -> 21 + OneDecimal(v[1])
      [] OTHER -> 28

\* The length of an ERROR line
ErrorLen(v) ==
    CASE v[1] = 1 -> 30
      [] v[1] = 2 -> 31
      [] v[1] = 3 -> 25
      [] v[1] = 4 -> 26 + Digits(v[2])
      [] v[1] = 5 -> 25
      [] OTHER -> 27

\* The length of a bit line, with " (th:40)" for the first 16 bits
BitLen(v) ==
    (IF v[1] < LogAllBits THEN 20 ELSE 12) + Digits(v[1]) + Digits(v[2]) + Digits(v[3])

\* Every line as long as temp_msg can hold; C19 does not hold of it
RecLenOfBuffer(rec) == 127

\* What snprintf returns for a record: the number of characters of its line
\* (the five lines of the timing analysis for "analysis")
RecLen(rec) ==
    CASE rec.tag = "header" -> 24
      [] rec.tag = "pin" -> 19
      [] rec.tag = "step" -> StepLen(rec.n, rec.v)
      [] rec.tag = "error" -> ErrorLen(rec.v)
      [] rec.tag = "check" -> 37
      [] rec.tag = "analysis" -> 17 + 40 + 26 + 30 + 32
      [] OTHER -> BitLen(rec.v)

\* log_pos += snprintf(app->debug_log + log_pos, sizeof(app->debug_log) - log_pos, ...)
LogAppend(S, rec) ==
    Apply(LAMBDA r : [S EXCEPT !.app.debug_log = Append(@, r),
                               !.call.log_pos = @ + RecLen(r)],
          rec)

\* bool bit_value = pulse_duration_us > 40; (line 286)
DebugBit(pulse_duration_us) == pulse_duration_us > BitThresholdUs

\* Every 8th bit counted from bit 16; C18 does not hold of it
BitLoggedFromSixteen(i) == i < LogAllBits \/ (i % 8) = 0

\* if(i < 16) ... else if((i % 8) == 7) ... (lines 296-302)
BitLogged(i) == i < LogAllBits \/ (i % 8) = 7

Flag(b) == IF b THEN 1 ELSE 0

\* The header appended to the log as the last read left it; C20 does not
\* hold of it
DebugHeaderKeepsLog(S) ==
    LogAppend(LogAppend(S, Rec("header", 0, <<>>)), Rec("pin", 0, <<>>))

\* app->debug_log[0] = '\0'; the header and the pin line (lines 163-168)
DebugHeader(S) ==
    LogAppend(LogAppend([S EXCEPT !.app.debug_log = <<>>], Rec("header", 0, <<>>)),
              Rec("pin", 0, <<>>))

\* lines 171-177: LED, step 1, step 2 with the sampled pin level
DebugInitial(S, pin_level) ==
    LogAppend(LogAppend(Notify(S, "blue"), Rec("step", 1, <<>>)),
              Rec("step", 2, <<Flag(pin_level)>>))

\* lines 158-183: clear the log, header, LED, initial pin state, start signal
DebugStart(S, pin_level) ==
    Goto(Delay(LogAppend(DriveLow(DebugInitial(DebugHeader(S), pin_level)),
                         Rec("step", 3, <<>>)),
               "delay_20ms"),
         "release")

\* The release signal without its step record; C25 does not hold of it
DebugHighUnlogged(S) == Delay(DriveHigh(S), "delay_30us")

\* lines 190-192: high, 30 us, step 5
DebugHigh(S) == LogAppend(Delay(DriveHigh(S), "delay_30us"), Rec("step", 5, <<>>))

\* lines 186-196
DebugRelease(S) ==
    Goto(LogAppend(ReleaseToInput(DebugHigh(LogAppend(CriticalEnter(S),
                                                      Rec("step", 4, <<>>)))),
                   Rec("step", 6, <<>>)),
         "ack_low")

\* The ERROR record, and after "No response" the wiring hint
LogErrors(S, errs) ==
    IF Len(errs) = 2
    THEN LogAppend(LogAppend(S, errs[1]), errs[2])
    ELSE LogAppend(S, errs[1])

\* The notification sent before the critical section is left; C27 does not
\* hold of it
DebugTimedOutNotifiesFirst(S, kind, errs) ==
    ReturnFalse(LogErrors(CriticalExit(Notify(Expire(S), "off")), errs), kind)

\* FURI_CRITICAL_EXIT(); notification_message(stop); the ERROR record(s); return false;
DebugTimedOut(S, kind, errs) ==
    ReturnFalse(LogErrors(Notify(CriticalExit(Expire(S)), "off"), errs), kind)

\* A test that takes a counter of 200 for a level seen; C23 does not hold of it
DebugAfterWaitAbove(W, kind, errs, next) ==
    IF W.call.timeout > TimeoutPolls
    THEN DebugTimedOut(W, kind, errs)
    ELSE Goto(W, next)

\* The test after a wait: fail with `kind` and its records, or go on at `next`
DebugAfterWait(W, kind, errs, next) ==
    Apply(LAMBDA w : IF w.call.timeout >= TimeoutPolls
                     THEN DebugTimedOut(w, kind, errs)
                     ELSE Goto(w, next),
          W)

\* "7. Wait for LOW: %lums timeout=%d" (line 205)
LogStep7(W) ==
    LogAppend(W, Rec("step", 7, <<W.call.timeout, Flag(W.call.timeout >= TimeoutPolls)>>))

\* "8. Response LOW: %lums" (line 222), "9. Response HIGH: %lums" (line 238)
LogPeriod(W, n) == LogAppend(W, Rec("step", n, <<W.call.timeout>>))

\* lines 200-214
DebugAckLow(S, line) ==
    DebugAfterWait(LogStep7(Waited(S, WaitWhileHigh(line, 0))), "NoResponse",
                   <<Rec("error", 0, <<1>>), Rec("check", 0, <<>>)>>, "ack_high")

\* lines 217-230
DebugAckHigh(S, line) ==
    DebugAfterWait(LogPeriod(Waited(S, WaitWhileLow(line, 0)), 8),
                   "InvalidResponseTiming", <<Rec("error", 0, <<2>>)>>, "ack_end")

\* lines 248-251: step 10, bits_read = 0, when the handshake went through
DebugBeginBits(S) ==
    IF S.call.pc = "bit_start"
    THEN [LogAppend(S, Rec("step", 10, <<>>)) EXCEPT !.call.bits_read = 0]
    ELSE S

\* lines 233-252
DebugAckEnd(S, line) ==
    DebugBeginBits(DebugAfterWait(LogPeriod(Waited(S, WaitWhileHigh(line, 0)), 9),
                                  "ResponseTooLong", <<Rec("error", 0, <<3>>)>>,
                                  "bit_start"))

\* The error record naming the bit after the one waited for; C12 does not
\* hold of it
DebugBitStartNextIndex(S, line) ==
    DebugAfterWait(Waited(S, WaitWhileLow(line, 0)), "BitTimeout",
                   <<Rec("error", 0, <<4, S.call.i + 1>>)>>, "bit_high")

\* lines 254-265
DebugBitStart(S, line) ==
    DebugAfterWait(Waited(S, WaitWhileLow(line, 0)), "BitTimeout",
                   <<Rec("error", 0, <<4, S.call.i>>)>>, "bit_high")

\* bits_read++ (line 293)
CountBit(S) == [S EXCEPT !.call.bits_read = @ + 1]

\* lines 296-302: the bit's line in the log
LogBit(S, bit_value) ==
    IF BitLogged(S.call.i)
    THEN LogAppend(S, Rec("bit", 0, <<S.call.i, S.call.pulse_duration_us, Flag(bit_value)>>))
    ELSE S

DebugClassify(S, broke, bit_value) ==
    NextBit(NoteBit(LogBit(CountBit(StoreBit(S, bit_value)), bit_value), broke, bit_value))

DebugMeasured(S, r) ==
    Apply(LAMBDA m : DebugClassify(StoreMeasure(S, m), m.broke,
                                   DebugBit(m.pulse_duration_us)),
          r)

\* lines 273-303
DebugBitHigh(S, m) == DebugMeasured(S, MeasureHigh(m))

\* lines 308-321: bits read, timing analysis, raw data
LogSummary(S) ==
    LogAppend(LogAppend(LogAppend(S, Rec("step", 12, <<S.call.bits_read>>)),
                        Rec("analysis", 0, <<>>)),
              Rec("step", 13, S.call.data))

\* lines 305-321: leave the critical section, then the summary
DebugExitCs(S) ==
    Goto(LogSummary(LogAppend(CriticalExit(S), Rec("step", 11, <<>>))), "checksum")

\* "14. Checksum calc: %02X, received: %02X" (line 325)
LogChecksum(S) ==
    LogAppend(S, Rec("step", 14, <<S.call.checksum, S.call.data[5]>>))

\* if(checksum != data[4]) { ...; "ERROR: Checksum mismatch"; return false; }
DebugCompare(S) ==
    IF S.call.checksum # S.call.data[5]
    THEN ReturnFalse(LogAppend(Notify(S, "off"), Rec("error", 0, <<5>>)),
                     "ChecksumMismatch")
    ELSE Goto(S, "convert")

\* lines 324-332
DebugChecksum(S) ==
    DebugCompare(LogChecksum([S EXCEPT !.call.checksum = Checksum(S.call.data)]))

\* "15. Humidity: %.1f%%", "16. Temperature: %.1f C" (lines 338-341)
LogReadings(S) ==
    LogAppend(LogAppend(S, Rec("step", 15, <<S.app.humidity>>)),
              Rec("step", 16, <<S.app.temperature>>))

\* lines 335-341: humidity and temperature as the bytes are
DebugConvert(S) == Goto(LogReadings(StoreReadings(S)), "range")

\* lines 344-352
DebugRange(S) ==
    IF OutOfRange(S.app)
    THEN ReturnFalse(LogAppend(Notify(S, "off"), Rec("error", 0, <<6>>)), "OutOfRange")
    ELSE ReturnTrue(LogAppend(Notify(S, "off"), Rec("step", 17, <<>>)))

---------------------------------------------------------------------------
(* One statement group of a read, of the function that is running *)

Plain(mode) == mode = "plain"

StartOf(mode, S, pin_level) ==
    IF Plain(mode) THEN PlainStart(S) ELSE DebugStart(S, pin_level)

ReleaseOf(mode, S) == IF Plain(mode) THEN PlainRelease(S) ELSE DebugRelease(S)

AckLowOf(mode, S, line) ==
    IF Plain(mode) THEN PlainAckLow(S, line) ELSE DebugAckLow(S, line)

AckHighOf(mode, S, line) ==
    IF Plain(mode) THEN PlainAckHigh(S, line) ELSE DebugAckHigh(S, line)

AckEndOf(mode, S, line) ==
    IF Plain(mode) THEN PlainAckEnd(S, line) ELSE DebugAckEnd(S, line)

BitStartOf(mode, S, line) ==
    IF Plain(mode) THEN PlainBitStart(S, line) ELSE DebugBitStart(S, line)

BitHighOf(mode, S, m) ==
    IF Plain(mode) THEN PlainBitHigh(S, m) ELSE DebugBitHigh(S, m)

ExitCsOf(mode, S) == IF Plain(mode) THEN PlainExitCs(S) ELSE DebugExitCs(S)

ChecksumOf(mode, S) == IF Plain(mode) THEN PlainChecksum(S) ELSE DebugChecksum(S)

ConvertOf(mode, S) == IF Plain(mode) THEN PlainConvert(S) ELSE DebugConvert(S)

RangeOf(mode, S) == IF Plain(mode) THEN PlainRange(S) ELSE DebugRange(S)

Other(mode) == IF Plain(mode) THEN "debug" ELSE "plain"

TwinOff == [on |-> FALSE, app |-> InitApp, call |-> NoCall, hw |-> InitHw]

\* The per-call history of the hardware starts anew with each call; readers
\* counts the calls of a read function that have not returned
AtEntry(h) ==
    [h EXCEPT !.ops = <<>>, !.cs_enter = 0, !.cs_exit = 0, !.unprotected = FALSE,
              !.entered_after = <<>>, !.readers = @ + 1, !.notified_in_cs = FALSE]

\* The machine state of the running read, and of the twin
Here == [app |-> app, call |-> call, hw |-> hw]

There == [app |-> twin.app, call |-> twin.call, hw |-> twin.hw]

\* The machine state at the entry of a read function
Entered(mode) == [app |-> app, call |-> NewCall(mode, app), hw |-> AtEntry(hw)]

AsTwin(T) == [on |-> TRUE, app |-> T.app, call |-> T.call, hw |-> T.hw]

\* The twin takes the statement group the running read takes
Twinned(p, T) == IF twin.on /\ twin.call.pc = p THEN AsTwin(T) ELSE twin

\* The running read moves to machine state N, the twin to T
Advance(N, T) ==
    \E n \in {N} :
        /\ app' = n.app
        /\ call' = n.call
        /\ hw' = n.hw
        /\ twin' = T

\* Application states a read may be called in: a valid reading with a trace,
\* a failed read's leftovers
PriorApps ==
    {[temperature |-> -5, humidity |-> 50, sensor_ok |-> TRUE,
      debug_log |-> <<[tag |-> "header", n |-> 0, v |-> <<>>]>>],
     [temperature |-> 24, humidity |-> 101, sensor_ok |-> FALSE, debug_log |-> <<>>]}

\* The machine states the twin is entered in: the other read function in the
\* same application state, or the same function in another application state
TwinEntries(mode) ==
    IF env.sameMode
    THEN {[app |-> a, call |-> NewCall(mode, a), hw |-> AtEntry(hw)] : a \in PriorApps}
    ELSE {Entered(Other(mode))}

\* A call of dht11_sensor_read or dht11_sensor_debug_read is entered
Enter(mode, pin_level) ==
    \E T \in TwinEntries(mode) :
        Advance(StartOf(mode, Entered(mode), pin_level),
                IF env.twin
                THEN AsTwin(StartOf(T.call.mode, T, pin_level))
                ELSE TwinOff)

---------------------------------------------------------------------------
(* The sensor's side of the line *)

\* A pulse as the bit-high loop meets it: n samples high, `per` cycles from
\* one counter read to the next, `tail` cycles to the read after the loop.
Pulse(n, per, tail) == [n |-> n, per |-> per, tail |-> tail]

\* A line behaviour: the level before the start signal, the sample at which
\* an answered wait sees its level, the pulses of a 0 and of a 1, and the
\* cycle counter at the start of a measurement.
\* Nominal: 26 us and 70 us.  Edge: 40 us (2623 cycles) and 41 us (2624
\* cycles), waits answered at the last sample in time, the counter wrapping
\* during the pulse.  Overlong: no pulse for a 0, a line left high beyond the
\* loop's bound for a 1, the counter wrapping before the loop's first pass.
Nominal ==
    [idle |-> TRUE, k |-> 3, p0 |-> Pulse(2, 832, 0), p1 |-> Pulse(5, 896, 0),
     start |-> U32(0)]
Edge ==
    [idle |-> FALSE, k |-> TimeoutPolls, p0 |-> Pulse(4, 640, 63), p1 |-> Pulse(4, 640, 64),
     start |-> [hi |-> Half - 1, lo |-> Half - 1000]]
Overlong ==
    [idle |-> TRUE, k |-> 1, p0 |-> Pulse(0, 64, 0), p1 |-> Pulse(StuckSamples, 4096, 7),
     start |-> [hi |-> Half - 1, lo |-> Half - 1000]]

\* A wait the line does not answer in time: the level shows at the sample of
\* the final loop test, or later
Unanswered == (TimeoutPolls + 1) .. LatestSeen

\* ack is the sample at which the first wait of the read sees the line low
\* (0 before that wait); high, end and bit are the same for the second wait,
\* the third wait and the latest bit-start wait
IdleSensor ==
    [profile |-> Nominal, byte |-> 0, sum |-> 0, ack |-> 0, high |-> 0, end |-> 0,
     bit |-> 0, served |-> FALSE]

\* The values the sensor may send as byte j of the frame
ByteChoices(j, sum) ==
    CASE j = 0 -> env.H
      [] j = 1 -> env.HF
      [] j = 2 -> env.T
      [] j = 3 -> env.TF
      [] j = 4 -> {Add8(sum, d) : d \in env.CK}

\* Single reads from the initial application state, over wide input sets
ReadEnv ==
    [H |-> {40, 50, 100, 101}, HF |-> {0, 1},
     T |-> {24, 60, 61, 128, 133, 168, 169}, TF |-> {0, 1}, CK |-> {0, 1},
     profiles |-> {Nominal, Edge, Overlong},
     faultBits |-> {0, 8, 15, 16, NumBits - 1},
     oneShot |-> TRUE, twin |-> TRUE, sameMode |-> FALSE]

\* Single reads over few frames and every line behaviour
LiveEnv ==
    [H |-> {50}, HF |-> {0}, T |-> {24, 133}, TF |-> {0}, CK |-> {0, 1},
     profiles |-> {Nominal, Edge, Overlong},
     faultBits |-> {0, NumBits - 1},
     oneShot |-> TRUE, twin |-> TRUE, sameMode |-> FALSE]

\* Single reads, each function run twice from different application states
PriorEnv ==
    [H |-> {50, 101}, HF |-> {0}, T |-> {24, 133}, TF |-> {0}, CK |-> {0, 1},
     profiles |-> {Nominal, Edge, Overlong},
     faultBits |-> {0, NumBits - 1},
     oneShot |-> TRUE, twin |-> TRUE, sameMode |-> TRUE]

\* Any sequence of reads of one frame, with presses during the reads
EventEnv ==
    [H |-> {50}, HF |-> {0}, T |-> {24}, TF |-> {0}, CK |-> {0, 1},
     profiles |-> {Nominal},
     faultBits |-> {0},
     oneShot |-> FALSE, twin |-> FALSE, sameMode |-> FALSE]

\* Any sequence of reads, over narrow input sets
AppEnv ==
    [H |-> {0, 50, 101}, HF |-> {0}, T |-> {0, 24, 133}, TF |-> {0}, CK |-> {0, 1},
     profiles |-> {Nominal},
     faultBits |-> {0, 8},
     oneShot |-> FALSE, twin |-> FALSE, sameMode |-> FALSE]

---------------------------------------------------------------------------
(* Scene handlers *)

\* dht11_read_sensor_update_widget
UpdateWidget(a) ==
    IF a.sensor_ok /\ (a.temperature # 0 \/ a.humidity # 0)
    THEN [kind |-> "reading", temperature |-> a.temperature, humidity |-> a.humidity]
    ELSE IF ~a.sensor_ok /\ (a.temperature # 0 \/ a.humidity # 0)
         THEN [kind |-> "error", temperature |-> 0, humidity |-> 0]
         ELSE [kind |-> "prompt", temperature |-> 0, humidity |-> 0]

\* widget_reset
EmptyWidget == [kind |-> "empty", temperature |-> 0, humidity |-> 0]

MayRead == ~(env.oneShot /\ sensor.served)

\* A handler that lets the next event in while it is still running; C24 does
\* not hold of it
HandlerMayRunAnyTime == TRUE

\* view_dispatcher_run (src/dht11.c 108): the loop takes the next event when
\* the handler of the event before has returned, and a read is a call made
\* inside a handler
HandlerMayRun == call.mode = "none"

\* Input handled as it arrives: no handler runs and nothing is queued
InputHandled == HandlerMayRun /\ pending = 0

Init(E) ==
    /\ env = E
    /\ app = InitApp
    /\ call = NoCall
    /\ hw = InitHw
    /\ scene = "main_menu"
    /\ widget = EmptyWidget
    /\ sensor = IdleSensor
    /\ twin = TwinOff
    /\ pending = 0

\* dht11_main_menu_callback, DHT11MainMenuIndexReadSensor; dht11_scene_read_sensor_on_enter
MenuReadSensor ==
    /\ scene = "main_menu" /\ InputHandled
    /\ scene' = "read_sensor"
    /\ widget' = UpdateWidget(app)
    /\ UNCHANGED <<pending, app, call, hw, sensor, twin, env>>

\* dht11_main_menu_callback, DHT11MainMenuIndexAbout; dht11_scene_about_on_enter
MenuAbout ==
    /\ scene = "main_menu" /\ InputHandled
    /\ scene' = "about"
    /\ UNCHANGED <<pending, app, call, hw, widget, sensor, twin, env>>

\* dht11_main_menu_callback, DHT11MainMenuIndexDebug; dht11_scene_debug_on_enter
\* up to the first statements of dht11_sensor_debug_read
MenuDebug ==
    /\ scene = "main_menu" /\ InputHandled /\ MayRead
    /\ scene' = "debug"
    /\ \E p \in env.profiles :
          /\ sensor' = [IdleSensor EXCEPT !.profile = p, !.served = TRUE]
          /\ Enter("debug", p.idle)
    /\ UNCHANGED <<pending, widget, env>>

\* app->sensor_ok = dht11_sensor_read(app), up to the first statements of
\* dht11_sensor_read
CallPlainRead ==
    \E p \in env.profiles :
        /\ sensor' = [IdleSensor EXCEPT !.profile = p, !.served = TRUE]
        /\ Enter("plain", p.idle)

\* dht11_read_sensor_button_callback; dht11_scene_read_sensor_on_event, custom
\* event
ReadButton ==
    /\ scene = "read_sensor" /\ InputHandled /\ MayRead
    /\ CallPlainRead
    /\ UNCHANGED <<pending, scene, widget, env>>

\* OK is pressed while a handler runs a read: the press waits in the view
\* dispatcher's queue
PressWhileReading ==
    /\ call.mode # "none"
    /\ pending < MaxPending
    /\ pending' = pending + 1
    /\ UNCHANGED <<app, call, hw, scene, widget, sensor, twin, env>>

\* The view dispatcher hands a queued press to the view shown: the READ
\* button of the read-sensor widget (dht11_read_sensor_button_callback), or
\* the text box of the debug scene, which has no use for it
DispatchQueued ==
    /\ HandlerMayRun
    /\ pending > 0
    /\ pending' = pending - 1
    /\ IF scene = "read_sensor"
       THEN CallPlainRead /\ UNCHANGED <<scene, widget, env>>
       ELSE UNCHANGED <<app, call, hw, scene, widget, sensor, twin, env>>

\* dht11_scene_*_on_event, back event; the scene's on_exit
Back ==
    /\ scene # "main_menu" /\ InputHandled
    /\ scene' = "main_menu"
    /\ widget' = IF scene = "read_sensor" THEN EmptyWidget ELSE widget
    /\ UNCHANGED <<pending, app, call, hw, sensor, twin, env>>

---------------------------------------------------------------------------
(* The steps of a running read *)

Running(p) == call.mode # "none" /\ call.pc = p

Release ==
    /\ Running("release")
    /\ Advance(ReleaseOf(call.mode, Here),
               Twinned("release", ReleaseOf(twin.call.mode, There)))
    /\ UNCHANGED <<pending, scene, widget, sensor, env>>

\* The line for a wait: answered at the profile's sample, or not in time
WaitLines(level, faulty) ==
    {[first |-> sensor.profile.k, to |-> level]}
        \cup (IF faulty THEN {[first |-> k, to |-> level] : k \in Unanswered} ELSE {})

AckLow ==
    /\ Running("ack_low")
    /\ \E line \in WaitLines(FALSE, TRUE) :
          /\ sensor' = [sensor EXCEPT !.ack = line.first]
          /\ Advance(AckLowOf(call.mode, Here, line),
                     Twinned("ack_low", AckLowOf(twin.call.mode, There, line)))
    /\ UNCHANGED <<pending, scene, widget, env>>

AckHigh ==
    /\ Running("ack_high")
    /\ \E line \in WaitLines(TRUE, TRUE) :
          /\ sensor' = [sensor EXCEPT !.high = line.first]
          /\ Advance(AckHighOf(call.mode, Here, line),
                     Twinned("ack_high", AckHighOf(twin.call.mode, There, line)))
    /\ UNCHANGED <<pending, scene, widget, env>>

AckEnd ==
    /\ Running("ack_end")
    /\ \E line \in WaitLines(FALSE, TRUE) :
          /\ sensor' = [sensor EXCEPT !.end = line.first]
          /\ Advance(AckEndOf(call.mode, Here, line),
                     Twinned("ack_end", AckEndOf(twin.call.mode, There, line)))
    /\ UNCHANGED <<pending, scene, widget, env>>

\* The read waits for the start of a bit on a line that shows it as `line`
StartBit(line) ==
    Advance(BitStartOf(call.mode, Here, line),
            Twinned("bit_start", BitStartOf(twin.call.mode, There, line)))

\* The sensor starts the next bit (and with the first bit of a byte, the byte)
BitStart ==
    /\ Running("bit_start")
    /\ \E b \in (IF call.i % 8 = 0 THEN ByteChoices(call.i \div 8, sensor.sum)
                 ELSE {sensor.byte}) :
          /\ sensor' = IF call.i % 8 = 0
                       THEN [sensor EXCEPT !.byte = b, !.sum = Add8(@, b),
                                           !.bit = sensor.profile.k]
                       ELSE [sensor EXCEPT !.bit = sensor.profile.k]
          /\ StartBit([first |-> sensor.profile.k, to |-> TRUE])
    /\ UNCHANGED <<pending, scene, widget, env>>

\* The sensor does not start the bit in time
BitStartLate ==
    /\ Running("bit_start")
    /\ call.i \in env.faultBits
    /\ \E k \in Unanswered :
          /\ sensor' = [sensor EXCEPT !.bit = k]
          /\ StartBit([first |-> k, to |-> TRUE])
    /\ UNCHANGED <<pending, scene, widget, env>>

\* The pulse of the bit the sensor sends: bit 7 - (i % 8) of its byte
SentPulse ==
    IF BitOf(sensor.byte, 7 - (call.i % 8)) = 1
    THEN sensor.profile.p1
    ELSE sensor.profile.p0

\* The pulse met with the cycle counter at `start`
PulseAt(p, start) == [start |-> start, n |-> p.n, per |-> p.per, tail |-> p.tail]

HoldHigh(m) ==
    Advance(BitHighOf(call.mode, Here, m),
            Twinned("bit_high", BitHighOf(twin.call.mode, There, m)))

\* The sensor holds the line high for the bit it sends
BitHigh ==
    /\ Running("bit_high")
    /\ HoldHigh(PulseAt(SentPulse, sensor.profile.start))
    /\ UNCHANGED <<pending, scene, widget, sensor, env>>

ExitCs ==
    /\ Running("exit_cs")
    /\ Advance(ExitCsOf(call.mode, Here),
               Twinned("exit_cs", ExitCsOf(twin.call.mode, There)))
    /\ UNCHANGED <<pending, scene, widget, sensor, env>>

VerifyChecksum ==
    /\ Running("checksum")
    /\ Advance(ChecksumOf(call.mode, Here),
               Twinned("checksum", ChecksumOf(twin.call.mode, There)))
    /\ UNCHANGED <<pending, scene, widget, sensor, env>>

Convert ==
    /\ Running("convert")
    /\ Advance(ConvertOf(call.mode, Here),
               Twinned("convert", ConvertOf(twin.call.mode, There)))
    /\ UNCHANGED <<pending, scene, widget, sensor, env>>

ValidateRange ==
    /\ Running("range")
    /\ Advance(RangeOf(call.mode, Here),
               Twinned("range", RangeOf(twin.call.mode, There)))
    /\ UNCHANGED <<pending, scene, widget, sensor, env>>

\* The read returned: app->sensor_ok = dht11_sensor_read(app); then
\* dht11_read_sensor_update_widget(app) (application.fam 177-178), or
\* app->sensor_ok = dht11_sensor_debug_read(app) (debug_scene.c 14)
Return ==
    /\ Running("ret")
    /\ app' = [app EXCEPT !.sensor_ok = call.ret]
    /\ widget' = IF call.mode = "plain" THEN UpdateWidget(app') ELSE widget
    /\ call' = NoCall
    /\ twin' = TwinOff
    /\ sensor' = [IdleSensor EXCEPT !.served = TRUE]
    /\ hw' = [hw EXCEPT !.readers = @ - 1]
    /\ UNCHANGED <<pending, scene, env>>

Next ==
    \/ MenuReadSensor
    \/ MenuAbout
    \/ MenuDebug
    \/ ReadButton
    \/ Back
    \/ Release
    \/ AckLow
    \/ AckHigh
    \/ AckEnd
    \/ BitStart
    \/ BitStartLate
    \/ BitHigh
    \/ ExitCs
    \/ VerifyChecksum
    \/ Convert
    \/ ValidateRange
    \/ Return

InitApplication == Init(AppEnv)

InitRead == Init(ReadEnv)

InitLive == Init(LiveEnv)

InitEvents == Init(EventEnv)

InitPrior == Init(PriorEnv)

\* The application: any sequence of plain and instrumented reads
Spec == InitApplication /\ [][Next]_vars

\* One read, plain or instrumented, over the wide input sets
SpecRead == InitRead /\ [][Next]_vars

\* The application with the presses that arrive while a read runs
NextEvents ==
    \/ Next
    \/ PressWhileReading
    \/ DispatchQueued

SpecEvents == InitEvents /\ [][NextEvents]_vars

\* One read, and the same read function called in another application state
\* on the same line behaviour
SpecPrior == InitPrior /\ [][Next]_vars

\* A statement group of the running read, or its return to the scene handler
ReadStep ==
    \/ Release
    \/ AckLow
    \/ AckHigh
    \/ AckEnd
    \/ BitStart
    \/ BitStartLate
    \/ BitHigh
    \/ ExitCs
    \/ VerifyChecksum
    \/ Convert
    \/ ValidateRange
    \/ Return

\* One read that keeps executing: the read runs on the GUI thread and, once
\* started, nothing stops it (no abort, the waits sleep by furi_delay_us only)
SpecReadFair == InitLive /\ [][Next]_vars /\ WF_vars(ReadStep)

---------------------------------------------------------------------------
(* Properties *)

Idle == call.mode = "none"

Returning == call.mode # "none" /\ call.pc = "ret"

\* All 40 bits of the running read are classified
FrameRead == call.mode # "none" /\ Len(call.bits) = NumBits

\* (h + hf + t + tf) mod 256 of the frame read
FrameSum == (call.data[1] + call.data[2] + call.data[3] + call.data[4]) % 256

\* The sign-magnitude value of a byte
SignedValue(byte) == IF byte >= 128 THEN -(byte - 128) ELSE byte

\* C1: between reads, when app->sensor_ok is true, 0 <= app->humidity <= 100
\* and -40 <= app->temperature <= 60, over any sequence of plain and
\* instrumented reads from the initial application state.
ValidReadingInRange ==
    (Idle /\ app.sensor_ok) =>
        /\ 0 <= app.humidity /\ app.humidity <= 100
        /\ -40 <= app.temperature /\ app.temperature <= 60

\* A valid negative reading shown after an earlier instrumented read
ValidReadingShown ==
    /\ Idle /\ app.sensor_ok
    /\ app.temperature = -5 /\ app.humidity = 50
    /\ app.debug_log # <<>>
    /\ widget.kind = "reading"

\* C2: once a bounded wait of a read has expired (a handshake wait, a
\* bit-start wait or the 200 us bound of the bit-high loop), the read
\* classifies no further bit and returns failure.
TimeoutIsTerminal ==
    call.expired => (call.late_bits = 0 /\ (call.pc = "ret" => ~call.ret))

\* C3: on the same line behaviour dht11_sensor_debug_read returns the same
\* flag and leaves the same temperature and humidity as dht11_sensor_read.
InstrumentedReadAgrees ==
    (Returning /\ twin.on /\ twin.call.pc = "ret") =>
        /\ twin.call.ret = call.ret
        /\ twin.app.temperature = app.temperature
        /\ twin.app.humidity = app.humidity

\* C4 as stated: a read whose 40 bits decode to a frame with the fifth byte
\* (h + hf + t + tf) mod 256 returns true.
ChecksumCorrectValidates ==
    (Returning /\ FrameRead /\ call.data[5] = FrameSum) => call.ret

\* C4: a read whose 40 bits decode to a frame with the fifth byte
\* (h + hf + t + tf) mod 256 passes the checksum comparison (it does not fail
\* with ChecksumMismatch, and goes on to the conversion), and a read whose
\* fifth byte differs fails with ChecksumMismatch and returns false.
ChecksumLaw ==
    /\ (Returning /\ FrameRead) =>
          /\ (call.data[5] = FrameSum) <=> (call.fail # "ChecksumMismatch")
          /\ (call.data[5] = FrameSum) <=> ("convert" \in call.visited)
          /\ (call.data[5] # FrameSum) => ~call.ret
    /\ (call.mode # "none" /\ call.pc \in {"convert", "range"}) =>
          call.data[5] = FrameSum

\* A frame with both fractional bytes set passes the comparison and validates
ChecksumPassed ==
    /\ Returning /\ FrameRead
    /\ call.data = <<50, 1, 24, 1, 76>>
    /\ call.ret

\* C5: after the conversion humidity is frame byte 0 and temperature is the
\* sign-magnitude value of frame byte 2 (bit 7 set: -(byte & 0x7F)), in
\* either read function.
SignMagnitudeDecode ==
    (call.mode # "none" /\ call.pc = "range") =>
        /\ app.humidity = call.data[1]
        /\ app.temperature = SignedValue(call.data[3])

\* C6: a read of a frame whose checksum is correct returns true if and only
\* if the decoded humidity is at most 100 and the decoded (sign-magnitude)
\* temperature is between -40 and 60.
RangeDecidesSuccess ==
    (Returning /\ FrameRead /\ call.data[5] = FrameSum) =>
        (call.ret <=> /\ call.data[1] <= 100
                      /\ -40 <= SignedValue(call.data[3])
                      /\ SignedValue(call.data[3]) <= 60)

\* C7: a read that fails, for whichever of the six reasons, returns false,
\* and the scene handler stores false in app->sensor_ok in the step that ends
\* the call, whatever the flag was before.
FailedReadClearsFlag ==
    [][(Returning /\ call.fail # "none" /\ call'.mode = "none")
          => (~call.ret /\ ~app'.sensor_ok)]_vars

\* A read fails on its checksum while the flag of the read before is still set
FailureAfterSuccess ==
    /\ Returning /\ call.fail = "ChecksumMismatch"
    /\ app.sensor_ok

\* C8: a bit is classified 1 exactly when the modular cycle-counter delta of
\* its high period, divided by 64 and rounded down, is greater than 40; for
\* every bit of the frame and in either read function.
BitThresholdRule ==
    (call.mode # "none" /\ Len(call.bits) > 0) =>
        /\ call.pulse_duration_us = PulseDurationUs(call.start_cycles, call.end_cycles)
        /\ call.bits[Len(call.bits)] <=> (call.pulse_duration_us > 40)

\* The last bit of a frame measured at 40 us across a wrap of the counter
\* and classified 0, in the instrumented read
FortyIsZero ==
    /\ call.mode = "debug" /\ FrameRead
    /\ call.pulse_duration_us = 40
    /\ call.end_cycles.hi = 0 /\ call.start_cycles.hi = Half - 1
    /\ ~call.bits[NumBits]

\* The value of frame byte k when bit (7 - j) is the classification of
\* received bit 8k + j, bits not yet received being 0
RECURSIVE PackedByte(_, _, _)
PackedByte(bits, k, j) ==
    IF j = 8
    THEN 0
    ELSE (IF 8 * k + j < Len(bits) /\ bits[8 * k + j + 1] THEN 2 ^ (7 - j) ELSE 0)
         + PackedByte(bits, k, j + 1)

\* C9: frame byte k holds, at bit (7 - j), the classification of received
\* bit 8k + j, and 0 at the bits not yet received; so from the start of
\* every read on.
MsbFirstPacking ==
    call.mode # "none" =>
        \A k \in 0 .. 4 : call.data[k + 1] = PackedByte(call.bits, k, 0)

\* A whole frame packed in a read that follows an instrumented read
FramePacked ==
    /\ call.mode # "none" /\ call.pc = "exit_cs"
    /\ call.data = <<50, 0, 133, 0, 183>>
    /\ app.debug_log # <<>>

\* C10: when the first wait does not see the line low within its 200 polls,
\* the read is at its return with NoResponse and false, the counter at most
\* 200, no later handshake phase and no bit entered, and temperature and
\* humidity as they were at the call.
NoResponseLaw ==
    (call.mode # "none" /\ sensor.ack > TimeoutPolls) =>
        /\ call.pc = "ret" /\ call.fail = "NoResponse" /\ ~call.ret
        /\ call.timeout <= 200 /\ call.samples <= 201
        /\ call.visited \cap {"ack_high", "ack_end", "bit_start", "bit_high",
                              "exit_cs", "checksum", "convert", "range"} = {}
        /\ call.bits = <<>>
        /\ app.temperature = call.entry.temperature
        /\ app.humidity = call.entry.humidity

\* No response in a read that follows a successful one: its reading stays
NoResponseKeepsReading ==
    /\ Returning /\ sensor.ack > TimeoutPolls
    /\ call.fail = "NoResponse"
    /\ app.sensor_ok /\ app.temperature = 24 /\ app.humidity = 50

\* A wait that saw its level within the 200 polls, one that did not
InTime(first) == first >= 1 /\ first <= TimeoutPolls

TooLate(first) == first > TimeoutPolls

\* The last record of the trace
LastRecord == app.debug_log[Len(app.debug_log)]

\* C11: the three handshake waits run in the order low, high, low, each with
\* a bound of 200 polls of its own, and the failure kind names the first wait
\* whose level did not show in time: the second gives InvalidResponseTiming,
\* the third ResponseTooLong; the data phase is entered only after all three
\* saw their level in time.
HandshakeOrder ==
    call.mode # "none" =>
        /\ (sensor.high # 0) => (InTime(sensor.ack) /\ "ack_high" \in call.visited)
        /\ (sensor.end # 0) => (InTime(sensor.high) /\ "ack_end" \in call.visited)
        /\ TooLate(sensor.high) <=> call.fail = "InvalidResponseTiming"
        /\ TooLate(sensor.end) <=> call.fail = "ResponseTooLong"
        /\ (TooLate(sensor.high) \/ TooLate(sensor.end)) =>
              /\ call.pc = "ret" /\ ~call.ret
              /\ call.bits = <<>> /\ "bit_start" \notin call.visited
        /\ TooLate(sensor.high) => "ack_end" \notin call.visited
        /\ ("bit_start" \in call.visited) =>
              (InTime(sensor.ack) /\ InTime(sensor.high) /\ InTime(sensor.end))

\* The third wait fails after the first two saw their level at their last
\* sample in time
ThirdWaitTooLong ==
    /\ Returning /\ call.fail = "ResponseTooLong"
    /\ sensor.ack = TimeoutPolls /\ sensor.high = TimeoutPolls
    /\ TooLate(sensor.end)

\* C12: when the line does not go high within the 200 polls of the wait for
\* bit i, the read returns false at once with BitTimeout, i being the number
\* of bits classified so far (0..39); the instrumented read ends its trace
\* with the record naming that i.
BitTimeoutIndex ==
    call.mode # "none" =>
        /\ TooLate(sensor.bit) <=> call.fail = "BitTimeout"
        /\ TooLate(sensor.bit) =>
              /\ call.pc = "ret" /\ ~call.ret
              /\ call.i = Len(call.bits)
              /\ call.i >= 0 /\ call.i <= 39
              /\ (call.mode = "debug") =>
                    LastRecord = Rec("error", 0, <<4, Len(call.bits)>>)

\* The instrumented read times out waiting for the last bit
LastBitTimeout ==
    /\ Returning /\ call.mode = "debug" /\ call.fail = "BitTimeout"
    /\ Len(call.bits) = 39

\* Each polling wait is left at a sample that shows the awaited level, or
\* with its counter at the bound
WaitsLeft ==
    call.mode # "none" =>
        /\ call.timeout <= TimeoutPolls
        /\ (call.pc = "ack_high") => call.timeout + 1 >= sensor.ack
        /\ (call.pc = "ack_end") => call.timeout + 1 >= sensor.high
        /\ (call.pc = "bit_start" /\ call.bits = <<>>) => call.timeout + 1 >= sensor.end
        /\ (call.pc = "bit_high") => call.timeout + 1 >= sensor.bit
        /\ (call.pc = "ret" /\ call.fail \in {"NoResponse", "InvalidResponseTiming",
                                              "ResponseTooLong", "BitTimeout"})
              => call.timeout = TimeoutPolls
        /\ (call.pulse_duration_us > HighTimeoutUs) => call.expired

\* C13: a read that keeps executing returns, whatever the line does: every
\* wait is left by the awaited level or by its bound, and from every state of
\* a running read the call reaches its return.
ReadTerminates ==
    /\ []WaitsLeft
    /\ (call.mode # "none") ~> (call.mode = "none")

\* A read that met a line left high beyond the bit-high bound, and a
\* bit-start wait that expired, at its return
StuckLineReturned ==
    /\ Returning /\ call.expired /\ call.late_bits > 0
    /\ call.fail = "BitTimeout"

\* The steps that follow the data loop
AfterBits == {"exit_cs", "checksum", "convert", "range"}

\* C14: a read that is past its data loop (at the end of the critical
\* section, at the checksum comparison, or beyond it) has classified exactly
\* 40 bits, i = 40 and, in dht11_sensor_debug_read, bits_read = 40, and the
\* five bytes hold these bits; a read that has classified fewer than 40 bits
\* has reached none of these steps, has computed no checksum and has written
\* neither temperature nor humidity.
FortyBitsBeforeChecksum ==
    call.mode # "none" =>
        /\ (call.pc \in AfterBits \/ call.visited \cap AfterBits # {}) =>
              /\ Len(call.bits) = NumBits
              /\ call.i = NumBits
              /\ call.mode = "debug" => call.bits_read = NumBits
              /\ \A k \in 0 .. 4 : call.data[k + 1] = PackedByte(call.bits, k, 0)
        /\ Len(call.bits) < NumBits =>
              /\ call.pc \notin AfterBits
              /\ call.visited \cap AfterBits = {}
              /\ call.checksum = 0
              /\ app.temperature = call.entry.temperature
              /\ app.humidity = call.entry.humidity
        /\ Len(call.bits) <= NumBits

\* An instrumented read of 40 bits that the checksum comparison rejects
FullFrameRejected ==
    /\ Returning /\ call.mode = "debug"
    /\ call.fail = "ChecksumMismatch"
    /\ call.bits_read = NumBits
    /\ Len(call.bits) = NumBits

\* The steps of a read between the switch to input and the end of the data loop
InsideCs == {"ack_low", "ack_high", "ack_end", "bit_start", "bit_high", "exit_cs"}

\* The steps of a read that validate the frame
Validation == {"checksum", "convert", "range"}

\* C15: no wait and no bit-high loop samples the line outside the critical
\* section: from the switch to input until bit 39 is classified the section
\* is held, once; it was entered after the 20 ms delay of the start signal
\* and before the line was driven high; the checksum, the conversion and the
\* range check run after it is left, and a read returns with it left.
SamplesInsideCriticalSection ==
    call.mode # "none" =>
        /\ ~hw.unprotected
        /\ hw.critical \in {0, 1}
        /\ call.pc \in InsideCs =>
              /\ hw.critical = 1 /\ hw.cs_enter = 1 /\ hw.cs_exit = 0
              /\ hw.pin = "input_pullup"
        /\ hw.cs_enter > 0 =>
              hw.entered_after = <<"init_output", "write_low", "delay_20ms">>
        /\ call.pc = "release" =>
              /\ hw.critical = 0 /\ hw.cs_enter = 0
              /\ hw.ops = <<"init_output", "write_low", "delay_20ms">>
              /\ call.samples = 0
        /\ call.pc \in Validation \cup {"ret"} =>
              /\ hw.critical = 0 /\ hw.cs_enter = 1 /\ hw.cs_exit = 1
        /\ call.samples > 0 => hw.cs_enter = 1

\* The checksum comparison of a whole frame, reached with the section left
ValidationOutsideCs ==
    /\ call.mode # "none" /\ call.pc = "checksum"
    /\ Len(call.bits) = NumBits /\ call.samples > 0
    /\ hw.critical = 0 /\ hw.cs_exit = 1 /\ ~hw.unprotected

\* The start signal, and the whole sequence of line operations of a read
StartSignal == <<"init_output", "write_low", "delay_20ms">>

LineOperations == StartSignal \o <<"write_high", "delay_30us", "init_input">>

\* C16: a read configures the pin as output and drives it low, waits 20 ms,
\* drives it high, waits 30 us and switches it to input with pull-up, in this
\* order and once each; from then on, through the waits, the data loop, the
\* validation and every return, successful or not, it performs no further
\* line operation and the pin stays an input with pull-up.
LineOperationsOnce ==
    call.mode # "none" =>
        /\ call.pc = "release" => (hw.ops = StartSignal /\ hw.pin = "output_low")
        /\ call.pc # "release" =>
              (hw.ops = LineOperations /\ hw.pin = "input_pullup")

\* A read that failed in the middle of the data loop, its line operations done once
ReleasedOnceOnFailure ==
    /\ Returning /\ ~call.ret /\ call.fail = "BitTimeout"
    /\ Len(call.bits) = 16
    /\ hw.ops = LineOperations /\ hw.pin = "input_pullup"

\* The ERROR record of the failure the running read returns with
FailureRecord ==
    CASE call.fail = "NoResponse" -> Rec("error", 0, <<1>>)
      [] call.fail = "InvalidResponseTiming" -> Rec("error", 0, <<2>>)
      [] call.fail = "ResponseTooLong" -> Rec("error", 0, <<3>>)
      [] call.fail = "BitTimeout" -> Rec("error", 0, <<4, call.i>>)
      [] call.fail = "ChecksumMismatch" -> Rec("error", 0, <<5>>)
      [] OTHER -> Rec("error", 0, <<6>>)

\* C17: when dht11_sensor_debug_read returns false, the last record of
\* debug_log is the ERROR record of the failure it returns with.
FailureRecordIsLast ==
    (Returning /\ call.mode = "debug" /\ ~call.ret) =>
        /\ app.debug_log # <<>>
        /\ LastRecord = FailureRecord

\* The "Bit %d: %lums = %d" records of the log, in the order of the log
BitRecords == SelectSeq(app.debug_log, LAMBDA r : r.tag = "bit")

\* The bit indices that get a record
LoggedIndices == (0 .. 15) \cup {23, 31, 39}

\* C18: in dht11_sensor_debug_read the log holds one record (index, duration,
\* value) for each classified bit with index 0 to 15 and for the classified
\* bits 23, 31 and 39, and for no other bit; the records are in increasing
\* index, each carries the value the bit was classified as (duration above
\* 40), and a read of all 40 bits has 19 of them whatever the data.
BitRecordsSampled ==
    call.mode = "debug" =>
        /\ Len(BitRecords) = Cardinality({i \in LoggedIndices : i < Len(call.bits)})
        /\ \A k \in 1 .. Len(BitRecords) :
              /\ BitRecords[k].v[1] \in LoggedIndices
              /\ BitRecords[k].v[1] < Len(call.bits)
              /\ BitRecords[k].v[3] = Flag(call.bits[BitRecords[k].v[1] + 1])
              /\ BitRecords[k].v[3] = Flag(BitRecords[k].v[2] > BitThresholdUs)
              /\ k > 1 => BitRecords[k - 1].v[1] < BitRecords[k].v[1]
        /\ Len(call.bits) = NumBits => Len(BitRecords) = 19

\* A whole frame read with its 19 bit records, the last one of bit 39
AllBitRecords ==
    /\ Returning /\ call.mode = "debug" /\ call.ret
    /\ Len(BitRecords) = 19
    /\ BitRecords[17].v[1] = 23
    /\ BitRecords[19].v[1] = 39

RECURSIVE LogLength(_, _)
LogLength(log, k) == IF k = 0 THEN 0 ELSE RecLen(log[k]) + LogLength(log, k - 1)

\* C19: throughout dht11_sensor_debug_read log_pos is the length of the text
\* appended so far and stays below sizeof(debug_log) = 2048, so every append
\* starts at a position inside the buffer with a positive remaining size and
\* none is cut short.
LogInsideBuffer ==
    call.mode = "debug" =>
        /\ call.log_pos = LogLength(app.debug_log, Len(app.debug_log))
        /\ call.log_pos >= 0
        /\ call.log_pos < DebugLogSize
        /\ DebugLogSize - call.log_pos > 0

\* The log of a read of all 40 bits: 39 records, more than 1100 characters
LongLog ==
    /\ Returning /\ call.mode = "debug"
    /\ Len(call.bits) = NumBits
    /\ Len(app.debug_log) = 39
    /\ call.log_pos >= 1120

\* The number of bit records of a read that classified n bits
BitRecordsOf(n) == Cardinality({i \in LoggedIndices : i < n})

\* The number of records dht11_sensor_debug_read has appended when it returns
RecordsAtReturn ==
    CASE call.fail = "NoResponse" -> 11
      [] call.fail = "InvalidResponseTiming" -> 11
      [] call.fail = "ResponseTooLong" -> 12
      [] call.fail = "BitTimeout" -> 13 + BitRecordsOf(Len(call.bits))
      [] call.fail = "ChecksumMismatch" -> 37
      [] OTHER -> 39

\* C20: while dht11_sensor_debug_read runs and when it returns, true or
\* false, debug_log starts with the header and holds this call's records
\* only: one header, the length log_pos counted from 0 in this call, the bit
\* records of the bits this call classified, and at the return the number of
\* records of this call's path, whatever the log held at the entry.
TraceOfThisCall ==
    call.mode = "debug" =>
        /\ Len(app.debug_log) >= 5
        /\ app.debug_log[1] = Rec("header", 0, <<>>)
        /\ \A k \in 2 .. Len(app.debug_log) : app.debug_log[k].tag # "header"
        /\ call.log_pos = LogLength(app.debug_log, Len(app.debug_log))
        /\ Len(BitRecords) = BitRecordsOf(Len(call.bits))
        /\ call.pc = "release" => Len(app.debug_log) = 5
        /\ call.pc = "ret" => Len(app.debug_log) = RecordsAtReturn

\* A read that fails at its first data bit after a read that left a whole trace
ShortTraceAfterLong ==
    /\ Returning /\ call.mode = "debug" /\ ~call.ret
    /\ call.entry.log = 39
    /\ Len(app.debug_log) = 13

\* The pulse of the bit classified last
LastPulse ==
    IF BitOf(sensor.byte, 7 - ((call.i - 1) % 8)) = 1
    THEN sensor.profile.p1
    ELSE sensor.profile.p0

\* The passes of the bit-high loop on pulse p, counted in cycles from the
\* start of the measurement: the first pass that is more than 200 us after
\* the start ends the loop, or the line's going low after p.n passes
PassesMade(p) ==
    IF \E j \in 1 .. p.n : (j * p.per) \div CyclesPerUs > HighTimeoutUs
    THEN CHOOSE j \in 1 .. p.n :
             /\ (j * p.per) \div CyclesPerUs > HighTimeoutUs
             /\ \A l \in 1 .. (j - 1) : (l * p.per) \div CyclesPerUs <= HighTimeoutUs
    ELSE p.n

\* The cycles from the start of the measurement of p to its end
CyclesOf(p) == PassesMade(p) * p.per + p.tail

\* A measurement was just stored: the read is at the next bit or past the loop
JustMeasured ==
    /\ call.mode # "none" /\ call.pc \in {"bit_start", "exit_cs"}
    /\ Len(call.bits) > 0

\* The counter wrapped between start_cycles and end_cycles
Wrapped == call.start_cycles.hi = Half - 1 /\ call.end_cycles.hi = 0

\* C21: wherever the cycle counter stands when a bit-high measurement starts,
\* also when it wraps during the pulse, end_cycles - start_cycles is the
\* number of cycles the pulse took, pulse_duration_us is that number div 64,
\* the loop is left by its 200 us bound exactly when a pass lies more than
\* 200 us after the start, and the bit is 1 exactly when the duration is
\* above 40.
WrapSafeDuration ==
    JustMeasured =>
        /\ Sub32(call.end_cycles, call.start_cycles) = U32(CyclesOf(LastPulse))
        /\ call.pulse_duration_us = CyclesOf(LastPulse) \div CyclesPerUs
        /\ call.bits[Len(call.bits)] = (CyclesOf(LastPulse) \div CyclesPerUs > BitThresholdUs)
        /\ (PassesMade(LastPulse) < LastPulse.n) => call.expired

\* A stuck line cut off after 256 us, measured across the counter's wrap
CutOffAcrossWrap ==
    /\ JustMeasured /\ Wrapped
    /\ call.expired
    /\ call.pulse_duration_us = 256
    /\ call.bits[Len(call.bits)]

\* C22: when dht11_sensor_read returns to the read-sensor scene's handler,
\* the widget the handler then builds shows the error text if the read
\* returned false, and the temperature and humidity the application now
\* holds if it returned true.
WidgetShowsOutcome ==
    [][(Returning /\ call.mode = "plain" /\ call'.mode = "none") =>
          IF call.ret
          THEN widget' = [kind |-> "reading", temperature |-> app'.temperature,
                          humidity |-> app'.humidity]
          ELSE widget'.kind = "error"]_vars

\* The failures of the four bounded waits
WaitFailures == {"NoResponse", "InvalidResponseTiming", "ResponseTooLong", "BitTimeout"}

\* The sample at which the wait that failed would have seen its level
FailedWaitSeen ==
    CASE call.fail = "NoResponse" -> sensor.ack
      [] call.fail = "InvalidResponseTiming" -> sensor.high
      [] call.fail = "ResponseTooLong" -> sensor.end
      [] OTHER -> sensor.bit

\* C23: a wait of either read goes on to the next phase exactly when the
\* awaited level shows in one of its first 200 samples, sample s leaving the
\* counter at s - 1 < 200; when the level shows at sample 201 (the sample of
\* the final loop test) or later, the counter is 200, 201 samples were taken
\* and the read returns the wait's failure.
WaitSeesFirst200 ==
    call.mode # "none" =>
        /\ call.pc = "ack_high" =>
              (InTime(sensor.ack) /\ call.timeout = sensor.ack - 1)
        /\ call.pc = "ack_end" =>
              (InTime(sensor.high) /\ call.timeout = sensor.high - 1)
        /\ (call.pc = "bit_start" /\ call.bits = <<>>) =>
              (InTime(sensor.end) /\ call.timeout = sensor.end - 1)
        /\ call.pc = "bit_high" =>
              (InTime(sensor.bit) /\ call.timeout = sensor.bit - 1)
        /\ (call.pc = "ret" /\ call.fail \in WaitFailures) =>
              /\ TooLate(FailedWaitSeen)
              /\ call.timeout = TimeoutPolls
              /\ call.samples = TimeoutPolls + 1
              /\ ~call.ret
        /\ (TooLate(sensor.ack) \/ TooLate(sensor.high) \/ TooLate(sensor.end)
               \/ TooLate(sensor.bit)) =>
              (call.pc = "ret" /\ call.fail \in WaitFailures)

\* A bit-start wait that fails though its 201st sample shows the line high,
\* after a third handshake wait answered at its 200th sample
SeenAtFinalTest ==
    /\ Returning /\ call.fail = "BitTimeout"
    /\ sensor.end = TimeoutPolls
    /\ sensor.bit = TimeoutPolls + 1
    /\ call.samples = TimeoutPolls + 1

StepRecords == SelectSeq(app.debug_log, LAMBDA r : r.tag = "step")

\* C25: in dht11_sensor_debug_read the k-th numbered step record of the log
\* is step k, so the steps are recorded in increasing number, once each, none
\* before a lower one; every step of the call leaves the records already in
\* the log as they are and only appends; a read that returns true has the
\* steps 1 to 17 and ends with step 17, a read that returns false has the
\* steps 1 to n for some n < 17.
StepsInOrder ==
    /\ [](call.mode = "debug" =>
            /\ \A k \in 1 .. Len(StepRecords) : StepRecords[k].n = k
            /\ Len(StepRecords) >= 3 /\ Len(StepRecords) <= 17
            /\ (call.pc = "ret" /\ call.ret) =>
                  (Len(StepRecords) = 17 /\ LastRecord = Rec("step", 17, <<>>))
            /\ (call.pc = "ret" /\ ~call.ret) => Len(StepRecords) < 17)
    /\ [][(call.mode = "debug" /\ call'.mode = "debug") =>
             /\ Len(app'.debug_log) >= Len(app.debug_log)
             /\ SubSeq(app'.debug_log, 1, Len(app.debug_log)) = app.debug_log]_vars

\* A read that fails on its checksum, its steps 1 to 14 recorded
StepsUpToChecksum ==
    /\ Returning /\ call.mode = "debug"
    /\ call.fail = "ChecksumMismatch"
    /\ Len(StepRecords) = 14
    /\ StepRecords[14].n = 14

\* C26: a read that returns false leaves app->temperature and app->humidity
\* as they were when it was called.
FailedReadKeepsReading ==
    (Returning /\ ~call.ret) =>
        /\ app.temperature = call.entry.temperature
        /\ app.humidity = call.entry.humidity

\* C27: in either read the critical section is entered at most once and
\* left at most once, never left before it is entered; no notification call
\* is made while it is held; the checksum, the conversion and the range check
\* run with it left; and every return, true or false, is reached with one
\* entry, one exit, the section not held and the stop notification sent; no
\* section is held between reads.
CriticalSectionOnce ==
    /\ call.mode # "none" =>
          /\ hw.cs_enter \in {0, 1} /\ hw.cs_exit \in {0, 1}
          /\ hw.cs_exit <= hw.cs_enter
          /\ hw.critical = hw.cs_enter - hw.cs_exit
          /\ ~hw.notified_in_cs
          /\ call.pc \in Validation => (hw.cs_exit = 1 /\ hw.critical = 0)
          /\ call.pc = "ret" =>
                /\ hw.cs_enter = 1 /\ hw.cs_exit = 1 /\ hw.critical = 0
                /\ hw.led = "off"
    /\ call.mode = "none" => hw.critical = 0

\* An instrumented read returning from its second wait, the section left
\* once and the LED stopped
TimedOutOutsideCs ==
    /\ Returning /\ call.mode = "debug"
    /\ call.fail = "InvalidResponseTiming"
    /\ hw.cs_enter = 1 /\ hw.cs_exit = 1 /\ hw.critical = 0
    /\ hw.led = "off" /\ ~hw.notified_in_cs

\* C28: whenever no read is running, from the start of the application on
\* and after every read, whichever way it returned, the data pin is an input
\* with pull-up; a read reaches its return with the pin already so.
PinInputBetweenReads ==
    /\ call.mode = "none" => hw.pin = "input_pullup"
    /\ (call.mode # "none" /\ call.pc = "ret") => hw.pin = "input_pullup"

\* The debug scene after an instrumented read that failed: the pin released
PinReleasedAfterFailure ==
    /\ Idle /\ scene = "debug"
    /\ ~app.sensor_ok /\ app.debug_log # <<>>
    /\ LastRecord.tag = "error"
    /\ hw.ops = LineOperations
    /\ hw.pin = "input_pullup"

\* C29: two calls of the same read function that start in different
\* application states (another reading, validity flag and trace) and meet the
\* same line behaviour take the same path, decode the same frame and return
\* the same flag; when they return true they have stored the same
\* temperature and humidity.
OutcomeFromLineOnly ==
    (twin.on /\ twin.call.mode = call.mode) =>
        /\ twin.call.pc = call.pc
        /\ twin.call.data = call.data
        /\ twin.call.bits = call.bits
        /\ twin.call.fail = call.fail
        /\ call.pc = "ret" =>
              /\ twin.call.ret = call.ret
              /\ call.ret => /\ twin.app.temperature = app.temperature
                             /\ twin.app.humidity = app.humidity

\* Two plain reads returning true with the same reading, one called with no
\* reading stored and one with the reading -5 and 50 and a trace
SameReadingFromOtherState ==
    /\ Returning /\ call.mode = "plain" /\ call.ret
    /\ twin.on /\ twin.call.mode = "plain" /\ twin.call.ret
    /\ call.entry.temperature = 0 /\ twin.call.entry.temperature = -5
    /\ twin.call.entry.log = 1
    /\ app.temperature = 24 /\ twin.app.temperature = 24

\* C30: the plain read leaves the debug log alone: while a plain read is in
\* progress the log holds what it held when the read was entered, and no step
\* that enters, advances or returns from a plain read changes the log.
LogUntouchedByPlainRead ==
    /\ [](call.mode = "plain" => Len(app.debug_log) = call.entry.log)
    /\ [][(call.mode = "plain" \/ call'.mode = "plain") =>
              app'.debug_log = app.debug_log]_vars

\* A plain read returning true while the log still holds the full trace of an
\* earlier instrumented read
PlainReadAfterTrace ==
    /\ Returning /\ call.mode = "plain" /\ call.ret
    /\ call.entry.log = 39 /\ Len(app.debug_log) = 39
    /\ app.debug_log[1].tag = "header"

====
